---- MODULE Spec2Model ----
(***************************************************************************)
(* Seat reservation handlers of the movie reservation system               *)
(* (src/app/api/[[...slugs]]/route.ts): POST /screening/:id/reserve and    *)
(* DELETE /screening/:id/cancel, run by concurrent requests against the    *)
(* shared screening and reservation tables, next to the read routes and    *)
(* the admin routes of the same file.  Every awaited database call of a    *)
(* handler is one atomic step; the handler-local computation between two   *)
(* awaits belongs to the step of the await that precedes it.               *)
(* The signup wizard of the login page (src/unnamed/part_001) is modelled  *)
(* next to them: one action per event handler of the signup tab.           *)
(***************************************************************************)
EXTENDS Integers, Sequences, FiniteSets, TLC

(* ------------------------------ bounds --------------------------------- *)
NumProcs == 2          \* request slots that may run at the same time
NumRacers == 3         \* calls racing for one seat
MaxSeatsLen == 2       \* longest body.seats of a call made while no other runs
ConcSeatsLen == 1      \* longest body.seats of a call that may overlap another
MaxReservations == 2   \* reservation ids handed out before new reserves stop

Procs == 1..NumProcs
Racers == 1..NumRacers
AllProcs == Procs \cup Racers
Users == {"u1", "u2"}
Admins == {"a1"}                         \* accounts whose role starts as 'admin'
Accounts == Users \cup Admins            \* rows of the user table
Roles == {"user", "admin"}
MovieIds == {"m1"}                       \* rows of the movie table
FreshIds == {"m2", "s3"}                 \* ids crypto.randomUUID gives to admin-made rows
ScreeningIds == {"s1"}                   \* rows of the screening table
RequestIds == ScreeningIds \cup {"s2"}   \* ids a request may name; "s2" has no row

\* body.seats: z.array(z.object({row: z.number(), number: z.number()}))
RequestSeats == {[row |-> 1, number |-> 1], [row |-> 1, number |-> 2], [row |-> 2, number |-> 1]}
SeatLists(n) == UNION {[1..k -> RequestSeats] : k \in 0..n}
RaceSeat == [row |-> 1, number |-> 1]
ConcSeats == {[row |-> 1, number |-> 1], [row |-> 1, number |-> 2]}
ConcSeatLists == UNION {[1..k -> ConcSeats] : k \in 1..ConcSeatsLen}

VARIABLES
    screenings,    \* screening table: id -> [movieId, price, takenSeats]
    reservations,  \* reservation table: set of rows
    nextId,        \* source of fresh reservation ids (crypto.randomUUID)
    pc,            \* per request slot: the await the handler is parked at
    req,           \* per request slot: params, body and session of the call
    loc,           \* per request slot: handler-local constants
    result,        \* per request slot: the last response sent
    movies,        \* movie table: set of ids
    users,         \* user table: id -> [role, banned]
    fresh,         \* ids crypto.randomUUID has not handed to an admin-made row yet
    pre,           \* history: the tables when the latest call arrived
    lastCall,      \* history: the latest completed call, if a successful reserve
    op,            \* history: the route the latest step belongs to
    signupForm,    \* signup wizard: field -> value typed so far
    signupErrors,  \* signup wizard: field -> message shown under it, "" for none
    signupStage,   \* signup wizard: index of the stage on screen
    showSummary,   \* signup wizard: the confirmation summary replaces the form
    signUpArgs     \* signup wizard: what signUp was last called with

server == <<screenings, reservations, nextId, pc, req, loc, result, movies, users, fresh,
            pre, lastCall, op>>
page == <<signupForm, signupErrors, signupStage, showSummary, signUpArgs>>
vars == <<server, page>>

NoReq == [kind |-> "none"]
NoLoc == [set |-> FALSE]
NoResult == [status |-> 0]
NoPre == [set |-> FALSE]
NoCall == [kind |-> "none"]

(* --------------------------- pure helpers ------------------------------ *)
Digits == <<"0", "1", "2", "3", "4", "5", "6", "7", "8", "9">>

\* String(seat.row) on a small non-negative integer
String(n) == Digits[n + 1]

\* Number(s.row) on the decimal string of a small non-negative integer
Number(s) == CHOOSE n \in 0..9 : Digits[n + 1] = s

\* seats.map(seat => ({row: String(seat.row), number: seat.number, isAvailable: false}))
StoredSeat(seat) == [row |-> String(seat.row), number |-> seat.number, isAvailable |-> FALSE]
StoredSeats(seats) == [i \in 1..Len(seats) |-> StoredSeat(seats[i])]

\* takenSeats.find(s => Number(s.row) === seat.row && Number(s.number) === seat.number)
SeatMatches(s, seat) == Number(s.row) = seat.row /\ s.number = seat.number
IsTaken(takenSeats, seat) == \E i \in 1..Len(takenSeats) : SeatMatches(takenSeats[i], seat)

\* variant: only the first requested seat is checked
ConflictIndex_FirstOnly(takenSeats, seats) ==
    IF Len(seats) > 0 /\ IsTaken(takenSeats, seats[1]) THEN 1 ELSE 0

\* variant: the loop reports the last conflicting seat
ConflictIndex_Last(takenSeats, seats) ==
    IF \E i \in 1..Len(seats) : IsTaken(takenSeats, seats[i])
    THEN CHOOSE i \in 1..Len(seats) :
            /\ IsTaken(takenSeats, seats[i])
            /\ \A j \in (i + 1)..Len(seats) : ~IsTaken(takenSeats, seats[j])
    ELSE 0

\* for (const seat of seats) { if (takenSeats.find(...)) return 400 }: index of
\* the seat the loop stops at, 0 when the loop runs to its end
ConflictIndex(takenSeats, seats) ==
    IF \E i \in 1..Len(seats) : IsTaken(takenSeats, seats[i])
    THEN CHOOSE i \in 1..Len(seats) :
            /\ IsTaken(takenSeats, seats[i])
            /\ \A j \in 1..(i - 1) : ~IsTaken(takenSeats, seats[j])
    ELSE 0

\* variant: the new seats replace the taken seats
UpdatedTakenSeats_Overwrite(takenSeats, seats) == StoredSeats(seats)

\* [...takenSeats, ...seats.map(...)]
UpdatedTakenSeats(takenSeats, seats) == takenSeats \o StoredSeats(seats)

\* variant: the price is charged per seat
TotalPrice_PerSeat(price, seats) == price * Len(seats)

\* totalPrice: screening.price
TotalPrice(price, seats) == price

\* the row inserted into the reservation table
NewReservation(id, userId, screeningId, seats, price) ==
    [id |-> id, userId |-> userId, screeningId |-> screeningId,
     seats |-> StoredSeats(seats), totalPrice |-> TotalPrice(price, seats)]

\* variant: the filter predicate compares seat numbers only
StoredMatches_NumberOnly(rSeat, seat) == rSeat.number = seat.number

\* rSeat/seat comparison of the cancel filter: Number() on both sides
StoredMatches(rSeat, seat) ==
    Number(rSeat.row) = Number(seat.row) /\ rSeat.number = seat.number

\* variant: the filter compares rows only
FreedTakenSeats_RowOnly(takenSeats, resSeats) ==
    SelectSeq(takenSeats,
              LAMBDA seat : ~\E j \in 1..Len(resSeats) :
                                Number(resSeats[j].row) = Number(seat.row))

\* variant: the filter keeps every seat
FreedTakenSeats_None(takenSeats, resSeats) == takenSeats

\* screening.takenSeats.filter(seat => !reservation.seats.find(...))
FreedTakenSeats(takenSeats, resSeats) ==
    SelectSeq(takenSeats,
              LAMBDA seat : ~\E j \in 1..Len(resSeats) : StoredMatches(resSeats[j], seat))

\* db.select().from(screeningTable).where(eq(screeningTable.id, id)).then(res => res[0])
NoRow == [found |-> FALSE]
\* variant: a missing screening reads as a fresh one
SelectScreening_Default(tbl, id) ==
    IF id \in DOMAIN tbl THEN tbl[id] ELSE [movieId |-> "m1", price |-> 0, takenSeats |-> <<>>]

SelectScreening(tbl, id) == IF id \in DOMAIN tbl THEN tbl[id] ELSE NoRow

\* db.update(screeningTable).set({takenSeats}).where(eq(screeningTable.id, id))
UpdateTakenSeats(tbl, id, takenSeats) ==
    IF id \in DOMAIN tbl THEN [tbl EXCEPT ![id].takenSeats = takenSeats] ELSE tbl

\* variant: the select forgets the user condition
ReservationsOf_AnyUser(tbl, screeningId, userId) ==
    {r \in tbl : r.screeningId = screeningId}

\* db.select().from(reservationTable).where(and(eq(screeningId), eq(userId)))
ReservationsOf(tbl, screeningId, userId) ==
    {r \in tbl : r.screeningId = screeningId /\ r.userId = userId}

\* variant: the delete has no where clause
DeleteReservation_All(tbl, id) == {}

\* db.delete(reservationTable).where(eq(reservationTable.id, id))
DeleteReservation(tbl, id) == {r \in tbl : r.id # id}

(* --------------------------- signup wizard ----------------------------- *)
\* text is a sequence of one-character strings
Chars(text) == {text[i] : i \in 1..Len(text)}
Whitespace == {" "}
Letters == {"a", "b", "c", "d", "e", "f", "g", "h", "i", "j", "k", "l", "m",
            "n", "o", "p", "q", "r", "s", "t", "u", "v", "w", "x", "y", "z"}
DigitChars == Chars(Digits)

\* value.trim()
Trim(value) ==
    LET kept == {i \in 1..Len(value) : value[i] \notin Whitespace}
    IN IF kept = {} THEN <<>>
       ELSE SubSeq(value, CHOOSE i \in kept : \A j \in kept : i <= j,
                          CHOOSE i \in kept : \A j \in kept : j <= i)

\* signupStages[i].fields, stage 0 first
signupStages ==
    << {"email", "password", "confirmPassword"},
       {"firstName", "lastName"},
       {"username", "displayUsername"},
       {"profilePictureUrl"} >>
LastStage == Len(signupStages) - 1
StageFields(stage) == signupStages[stage + 1]
SignupFields == UNION {signupStages[i] : i \in 1..Len(signupStages)}

\* emailPattern.test(value) for /^[^\s@]+@[^\s@]+\.[^\s@]+$/
emailPattern(value) ==
    \E i, j \in 1..Len(value) :
        /\ 1 < i /\ i + 1 < j /\ j < Len(value)
        /\ value[i] = "@"
        /\ value[j] = "."
        /\ \A k \in 1..Len(value) : k # i => value[k] \notin Whitespace \cup {"@"}

\* new URL(value).protocol, <<>> when the constructor throws: the text up to
\* the first colon must be a scheme and something must follow the slashes
UrlProtocol(value) ==
    LET v == Trim(value)
        colons == {i \in 1..Len(v) : v[i] = ":"}
        c == CHOOSE i \in colons : \A j \in colons : i <= j
    IN IF colons = {} THEN <<>>
       ELSE IF c = 1 \/ ~(Chars(SubSeq(v, 1, c - 1)) \subseteq Letters) THEN <<>>
       ELSE IF \A k \in (c + 1)..Len(v) : v[k] = "/" THEN <<>>
       ELSE SubSeq(v, 1, c)

\* variant: any URL that parses is accepted
isValidUrl_AnyScheme(value) == UrlProtocol(value) # <<>>

\* url.protocol === "http:" || url.protocol === "https:"
isValidUrl(value) ==
    UrlProtocol(value) \in {<<"h", "t", "t", "p", ":">>, <<"h", "t", "t", "p", "s", ":">>}

MinPasswordLength == 8

\* variant: the password rule is left out
getSignupFieldError_NoPasswordRule(field, value, form) ==
    IF Trim(value) = <<>> THEN "This field is required."
    ELSE IF field = "email" /\ ~emailPattern(value) THEN "Enter a valid email address."
    ELSE IF field = "confirmPassword" /\ value # form["password"]
    THEN "Passwords do not match."
    ELSE IF field = "profilePictureUrl" /\ ~isValidUrl(value)
    THEN "Enter a valid URL starting with http or https."
    ELSE ""

\* getSignupFieldError(field, value, form): the message, "" when the field is fine
getSignupFieldError(field, value, form) ==
    IF Trim(value) = <<>> THEN "This field is required."
    ELSE IF field = "email" /\ ~emailPattern(value) THEN "Enter a valid email address."
    ELSE IF field = "password"
            /\ (Len(value) < MinPasswordLength \/ Chars(value) \cap DigitChars = {})
    THEN "Password must be at least 8 characters and include a number."
    ELSE IF field = "confirmPassword" /\ value # form["password"]
    THEN "Passwords do not match."
    ELSE IF field = "profilePictureUrl" /\ ~isValidUrl(value)
    THEN "Enter a valid URL starting with http or https."
    ELSE ""

\* validateSignupFields(fields): the errors it sets and the value it returns
NextErrors(errors, fields, form) ==
    [f \in SignupFields |->
        IF f \in fields THEN getSignupFieldError(f, form[f], form) ELSE errors[f]]

\* variant: only the first stage is looked at
FieldsPass_FirstStage(fields, form) ==
    \A f \in fields \cap signupStages[1] : getSignupFieldError(f, form[f], form) = ""

FieldsPass(fields, form) == \A f \in fields : getSignupFieldError(f, form[f], form) = ""

DEFAULT_AVATAR_URL ==
    <<"h", "t", "t", "p", "s", ":", "/", "/", "u", "p", "l", "o", "a", "d", ".", "w",
      "i", "k", "i", "m", "e", "d", "i", "a", ".", "o", "r", "g", "/", "w", "i", "k",
      "i", "p", "e", "d", "i", "a", "/", "c", "o", "m", "m", "o", "n", "s", "/", "0",
      "/", "0", "3", "/", "T", "w", "i", "t", "t", "e", "r", "_", "d", "e", "f", "a",
      "u", "l", "t", "_", "p", "r", "o", "f", "i", "l", "e", "_", "4", "0", "0", "x",
      "4", "0", "0", ".", "p", "n", "g">>

\* what the user may type into each input
TypedValues(field) ==
    CASE field = "email" -> {<<"a", "b">>, <<"a", "@", "b", ".", "c">>}
      [] field = "password" ->
            {<<"p", "a", "s", "s", "1">>,
             <<"p", "a", "s", "s", "w", "o", "r", "d">>,
             <<"p", "a", "s", "s", "w", "0", "r", "d">>}
      [] field = "confirmPassword" ->
            {<<"p", "a", "s", "s", "w", "o", "r", "d">>,
             <<"p", "a", "s", "s", "w", "0", "r", "d">>}
      [] field = "firstName" -> {<<" ">>, <<"a", "l">>}
      [] field = "profilePictureUrl" ->
            {<<"a">>, <<"f", "t", "p", ":", "/", "/", "a">>, DEFAULT_AVATAR_URL}
      [] OTHER -> {<<"a", "l">>}

NoSignUp == [called |-> FALSE]

(* ------------------------------- state --------------------------------- *)
Init ==
    /\ screenings = [s \in ScreeningIds |->
                        [movieId |-> "m1", price |-> 1250, takenSeats |-> <<>>]]
    /\ reservations = {}
    /\ nextId = 1
    /\ pc = [p \in AllProcs |-> "idle"]
    /\ req = [p \in AllProcs |-> NoReq]
    /\ loc = [p \in AllProcs |-> NoLoc]
    /\ result = [p \in AllProcs |-> NoResult]
    /\ movies = MovieIds
    /\ users = [a \in Accounts |->
                   [role |-> IF a \in Admins THEN "admin" ELSE "user", banned |-> FALSE]]
    /\ fresh = FreshIds
    /\ pre = NoPre
    /\ lastCall = NoCall
    /\ op = "none"
    /\ signupForm = [f \in SignupFields |->
                        IF f = "profilePictureUrl" THEN DEFAULT_AVATAR_URL ELSE <<>>]
    /\ signupErrors = [f \in SignupFields |-> ""]
    /\ signupStage = 0
    /\ showSummary = FALSE
    /\ signUpArgs = NoSignUp

InFlight(p) == pc[p] # "idle"

\* the handler of slot p sends its response
Respond(p, response) ==
    /\ pc' = [pc EXCEPT ![p] = "idle"]
    /\ req' = [req EXCEPT ![p] = NoReq]
    /\ loc' = [loc EXCEPT ![p] = NoLoc]
    /\ result' = [result EXCEPT ![p] = response]

(* ------------------------- POST /:id/reserve --------------------------- *)
\* the request reaches the handler, which awaits its first select
ReserveCall(p, screeningId, userId, seats) ==
    /\ pc[p] = "idle"
    /\ UNCHANGED <<movies, users, fresh, page>>
    /\ pc' = [pc EXCEPT ![p] = "r_select"]
    /\ req' = [req EXCEPT ![p] = [kind |-> "reserve", screeningId |-> screeningId,
                                  userId |-> userId, seats |-> seats]]
    /\ UNCHANGED <<screenings, reservations, nextId, loc, result>>

\* select the screening, 404 / 400 checks, build updatedTakenSeats
ReserveSelect(p) ==
    /\ pc[p] = "r_select"
    /\ UNCHANGED <<movies, users, fresh, page>>
    /\ LET sid == req[p].screeningId
           seats == req[p].seats
           screening == SelectScreening(screenings, sid)
       IN IF screening = NoRow
          THEN /\ Respond(p, [status |-> 404, error |-> "Screening not found"])
               /\ UNCHANGED <<screenings, reservations, nextId>>
          ELSE LET takenSeats == screening.takenSeats
                   k == ConflictIndex(takenSeats, seats)
               IN IF k # 0
                  THEN /\ Respond(p, [status |-> 400, error |-> "already taken",
                                      row |-> seats[k].row, number |-> seats[k].number])
                               /\ UNCHANGED <<screenings, reservations, nextId>>
                  ELSE /\ pc' = [pc EXCEPT ![p] = "r_update"]
                       /\ loc' = [loc EXCEPT ![p] =
                                    [set |-> TRUE,
                                     takenSeats |-> takenSeats,
                                     updatedTakenSeats |-> UpdatedTakenSeats(takenSeats, seats),
                                     price |-> screening.price]]
                       /\ UNCHANGED <<screenings, reservations, nextId, req, result>>

\* update the screening row with updatedTakenSeats
ReserveUpdate(p) ==
    /\ pc[p] = "r_update"
    /\ UNCHANGED <<movies, users, fresh, page>>
    /\ screenings' = UpdateTakenSeats(screenings, req[p].screeningId, loc[p].updatedTakenSeats)
    /\ pc' = [pc EXCEPT ![p] = "r_insert"]
    /\ UNCHANGED <<reservations, nextId, req, loc, result>>

\* insert the reservation row and answer with its id; the foreign key of
\* reservation.screening_id rejects a row for a screening that is gone
ReserveInsert(p) ==
    /\ pc[p] = "r_insert"
    /\ UNCHANGED <<movies, users, fresh, page>>
    /\ IF req[p].screeningId \in DOMAIN screenings
       THEN /\ reservations' = reservations \cup
                    {NewReservation(nextId, req[p].userId, req[p].screeningId,
                                    req[p].seats, loc[p].price)}
            /\ nextId' = nextId + 1
            /\ Respond(p, [status |-> 200, message |-> "Reservation successful",
                           reservationId |-> nextId])
       ELSE /\ Respond(p, [status |-> 500, error |-> "foreign key violation"])
            /\ UNCHANGED <<reservations, nextId>>
    /\ UNCHANGED screenings

(* ------------------------ DELETE /:id/cancel --------------------------- *)
CancelCall(p, screeningId, userId) ==
    /\ pc[p] = "idle"
    /\ UNCHANGED <<movies, users, fresh, page>>
    /\ pc' = [pc EXCEPT ![p] = "c_select"]
    /\ req' = [req EXCEPT ![p] = [kind |-> "cancel", screeningId |-> screeningId,
                                  userId |-> userId]]
    /\ UNCHANGED <<screenings, reservations, nextId, loc, result>>

\* select the caller's reservations of the screening and take res[0]; the
\* query has no ORDER BY, so any matching row may come first
CancelSelect(p) ==
    /\ pc[p] = "c_select"
    /\ UNCHANGED <<movies, users, fresh, page>>
    /\ LET found == ReservationsOf(reservations, req[p].screeningId, req[p].userId)
       IN IF found = {}
          THEN /\ Respond(p, [status |-> 404, error |-> "Reservation not found"])
          ELSE /\ \E r \in found :
                     loc' = [loc EXCEPT ![p] = [set |-> TRUE, reservation |-> r]]
               /\ pc' = [pc EXCEPT ![p] = "c_delete"]
               /\ UNCHANGED <<req, result>>
    /\ UNCHANGED <<screenings, reservations, nextId>>

\* delete the reservation row by id
CancelDelete(p) ==
    /\ pc[p] = "c_delete"
    /\ UNCHANGED <<movies, users, fresh, page>>
    /\ reservations' = DeleteReservation(reservations, loc[p].reservation.id)
    /\ pc' = [pc EXCEPT ![p] = "c_screening"]
    /\ UNCHANGED <<screenings, nextId, req, loc, result>>

\* select the screening and filter the reservation's seats out of takenSeats
CancelScreening(p) ==
    /\ pc[p] = "c_screening"
    /\ UNCHANGED <<movies, users, fresh, page>>
    /\ IF SelectScreening(screenings, req[p].screeningId) # NoRow
       THEN /\ loc' = [loc EXCEPT ![p] =
                        [set |-> TRUE, reservation |-> loc[p].reservation,
                         updatedTakenSeats |->
                            FreedTakenSeats(
                                SelectScreening(screenings, req[p].screeningId).takenSeats,
                                loc[p].reservation.seats)]]
            /\ pc' = [pc EXCEPT ![p] = "c_update"]
            /\ UNCHANGED <<req, result>>
       ELSE /\ Respond(p, [status |-> 200, message |-> "Reservation cancelled successfully"])
    /\ UNCHANGED <<screenings, reservations, nextId>>

\* update the screening row with the filtered takenSeats and answer
CancelUpdate(p) ==
    /\ pc[p] = "c_update"
    /\ UNCHANGED <<movies, users, fresh, page>>
    /\ screenings' = UpdateTakenSeats(screenings, req[p].screeningId, loc[p].updatedTakenSeats)
    /\ Respond(p, [status |-> 200, message |-> "Reservation cancelled successfully"])
    /\ UNCHANGED <<reservations, nextId>>

(* ------------------------- sessions and gates -------------------------- *)
NoSession == "none"                      \* getSession() returned null
Callers == Accounts \cup {NoSession}
Unauthorized == [status |-> 401, error |-> "Unauthorized"]
Forbidden == [status |-> 403, error |-> "Forbidden"]

\* variant: the middleware lets a request without a session through
AuthGate_Open(caller) == NoResult

\* authMiddleware: the response that ends the request, NoResult to go on
AuthGate(caller) == IF caller = NoSession THEN Unauthorized ELSE NoResult

\* variant: any session passes the admin check
AdminGate_AnySession(tbl, caller) == AuthGate(caller)

\* authMiddleware, then adminMiddleware: session.user.role !== 'admin'
AdminGate(tbl, caller) ==
    IF AuthGate(caller) # NoResult THEN AuthGate(caller)
    ELSE IF tbl[caller].role # "admin" THEN Forbidden
    ELSE NoResult

\* a route whose handler has a single awaited statement answers in one step
Answer(p, response) ==
    /\ pc[p] = "idle"
    /\ result' = [result EXCEPT ![p] = response]
    /\ UNCHANGED <<pc, req, loc, nextId, page>>

(* ------------------- reserve and cancel behind the gate ---------------- *)
\* .use(authMiddleware) precedes both routes: the handler is entered with
\* session.user.id, or the request ends at the gate
ReserveRequest(p, screeningId, caller, seats) ==
    IF AuthGate(caller) # NoResult
    THEN /\ Answer(p, AuthGate(caller))
         /\ UNCHANGED <<screenings, reservations, movies, users, fresh>>
    ELSE ReserveCall(p, screeningId, caller, seats)

CancelRequest(p, screeningId, caller) ==
    IF AuthGate(caller) # NoResult
    THEN /\ Answer(p, AuthGate(caller))
         /\ UNCHANGED <<screenings, reservations, movies, users, fresh>>
    ELSE CancelCall(p, screeningId, caller)

(* ----------------------------- read routes ----------------------------- *)
\* GET /user: the session's user
GetUser(p, caller) ==
    /\ Answer(p, IF AuthGate(caller) # NoResult THEN AuthGate(caller)
                 ELSE [status |-> 200, user |-> caller])
    /\ UNCHANGED <<screenings, reservations, movies, users, fresh>>

\* GET /movie: db.select().from(movieTable)
ListMovies(p) ==
    /\ Answer(p, [status |-> 200, movies |-> movies])
    /\ UNCHANGED <<screenings, reservations, movies, users, fresh>>

\* GET /screening: db.select().from(screeningTable)
ListScreenings(p) ==
    /\ Answer(p, [status |-> 200, screenings |-> screenings])
    /\ UNCHANGED <<screenings, reservations, movies, users, fresh>>

\* GET /screening/:id: select by id, 404 when there is no row
GetScreening(p, id) ==
    /\ Answer(p, IF SelectScreening(screenings, id) = NoRow
                 THEN [status |-> 404, error |-> "Screening not found"]
                 ELSE [status |-> 200, screening |-> SelectScreening(screenings, id)])
    /\ UNCHANGED <<screenings, reservations, movies, users, fresh>>

(* ----------------------------- admin routes ---------------------------- *)
\* db.update(userTable).set({role}).where(eq(userTable.id, userId))
SetRole(tbl, id, role) ==
    IF id \in DOMAIN tbl THEN [tbl EXCEPT ![id].role = role] ELSE tbl

\* db.update(userTable).set({banned: true, ...}).where(eq(userTable.id, userId))
SetBanned(tbl, id) ==
    IF id \in DOMAIN tbl THEN [tbl EXCEPT ![id].banned = TRUE] ELSE tbl

\* db.delete(movieTable).where(eq(movieTable.id, movieId))
DeleteMovie(tbl, id) == tbl \ {id}

\* db.delete(screeningTable).where(eq(screeningTable.id, screeningId))
DeleteScreening(tbl, id) == [s \in DOMAIN tbl \ {id} |-> tbl[s]]

\* variant: the cascade also empties the screenings that stay
CascadeScreenings_ClearSeats(tbl, mov) ==
    [s \in {x \in DOMAIN tbl : tbl[x].movieId \in mov} |->
        [tbl[s] EXCEPT !.takenSeats = <<>>]]

\* screening.movie_id REFERENCES movie(id) ON DELETE cascade: the screening
\* rows left once the movie table is mov
CascadeScreenings(tbl, mov) ==
    [s \in {x \in DOMAIN tbl : tbl[x].movieId \in mov} |-> tbl[s]]

\* variant: the foreign key does not cascade
CascadeReservations_Keep(tbl, scr) == tbl

\* reservation.screening_id REFERENCES screening(id) ON DELETE cascade: the
\* reservation rows left once the screening table is scr
CascadeReservations(tbl, scr) == {r \in tbl : r.screeningId \in DOMAIN scr}

\* PUT /admin/user/:id/promote
AdminPromote(p, caller, id, role) ==
    /\ IF AdminGate(users, caller) # NoResult
       THEN /\ Answer(p, AdminGate(users, caller))
            /\ UNCHANGED users
       ELSE /\ Answer(p, [status |-> 200, message |-> "User promoted successfully"])
            /\ users' = SetRole(users, id, role)
    /\ UNCHANGED <<screenings, reservations, movies, fresh>>

\* PUT /admin/user/:id/ban
AdminBan(p, caller, id) ==
    /\ IF AdminGate(users, caller) # NoResult
       THEN /\ Answer(p, AdminGate(users, caller))
            /\ UNCHANGED users
       ELSE /\ Answer(p, [status |-> 200, message |-> "User banned successfully"])
            /\ users' = SetBanned(users, id)
    /\ UNCHANGED <<screenings, reservations, movies, fresh>>

\* POST /admin/movie: insert a movie under a new id
AdminAddMovie(p, caller, id) ==
    /\ id \in fresh
    /\ IF AdminGate(users, caller) # NoResult
       THEN /\ Answer(p, AdminGate(users, caller))
            /\ UNCHANGED <<movies, fresh>>
       ELSE /\ Answer(p, [status |-> 200, message |-> "Movie added successfully",
                          movieId |-> id])
            /\ movies' = movies \cup {id}
            /\ fresh' = fresh \ {id}
    /\ UNCHANGED <<screenings, reservations, users>>

\* DELETE /admin/movie/:id: the delete cascades to the movie's screenings and
\* from them to their reservations
AdminDeleteMovie(p, caller, id) ==
    /\ IF AdminGate(users, caller) # NoResult
       THEN /\ Answer(p, AdminGate(users, caller))
            /\ UNCHANGED <<movies, screenings, reservations>>
       ELSE /\ Answer(p, [status |-> 200, message |-> "Movie deleted successfully"])
            /\ movies' = DeleteMovie(movies, id)
            /\ screenings' = CascadeScreenings(screenings, DeleteMovie(movies, id))
            /\ reservations' =
                   CascadeReservations(reservations,
                                       CascadeScreenings(screenings, DeleteMovie(movies, id)))
    /\ UNCHANGED <<users, fresh>>

\* variant: the new row copies the taken seats of the rows already stored
InsertScreening_CopySeats(tbl, id, movieId, price) ==
    [s \in DOMAIN tbl \cup {id} |->
        IF s = id
        THEN [movieId |-> movieId, price |-> price,
              takenSeats |-> IF "s1" \in DOMAIN tbl THEN tbl["s1"].takenSeats ELSE <<>>]
        ELSE tbl[s]]

\* db.insert(screeningTable).values({...newScreening}) with takenSeats: []
InsertScreening(tbl, id, movieId, price) ==
    [s \in DOMAIN tbl \cup {id} |->
        IF s = id
        THEN [movieId |-> movieId, price |-> price, takenSeats |-> <<>>]
        ELSE tbl[s]]

\* POST /admin/screening: insert a screening under a new id; the foreign key
\* of screening.movie_id rejects a movie that has no row
AdminAddScreening(p, caller, id, movieId, price) ==
    /\ id \in fresh
    /\ IF AdminGate(users, caller) # NoResult
       THEN /\ Answer(p, AdminGate(users, caller))
            /\ UNCHANGED <<screenings, fresh>>
       ELSE IF movieId \notin movies
            THEN /\ Answer(p, [status |-> 500, error |-> "foreign key violation"])
                 /\ UNCHANGED <<screenings, fresh>>
            ELSE /\ Answer(p, [status |-> 200, message |-> "Screening added successfully",
                               screeningId |-> id])
                 /\ screenings' = InsertScreening(screenings, id, movieId, price)
                 /\ fresh' = fresh \ {id}
    /\ UNCHANGED <<reservations, movies, users>>

\* DELETE /admin/screening/:id: the delete cascades to the screening's
\* reservations
AdminDeleteScreening(p, caller, id) ==
    /\ IF AdminGate(users, caller) # NoResult
       THEN /\ Answer(p, AdminGate(users, caller))
            /\ UNCHANGED <<screenings, reservations>>
       ELSE /\ Answer(p, [status |-> 200, message |-> "Screening deleted successfully"])
            /\ screenings' = DeleteScreening(screenings, id)
            /\ reservations' =
                   CascadeReservations(reservations, DeleteScreening(screenings, id))
    /\ UNCHANGED <<movies, users, fresh>>

(* ------------------------- signup wizard page -------------------------- *)
\* onChange of an input of the stage on screen
handleSignupChange(field, value) ==
    /\ ~showSummary
    /\ field \in StageFields(signupStage)
    /\ signupForm' = [signupForm EXCEPT ![field] = value]
    /\ UNCHANGED <<signupErrors, signupStage, showSummary, signUpArgs, server>>

\* the Next button, rendered while signupStage < signupStages.length - 1
handleSignupNext ==
    /\ ~showSummary
    /\ signupStage < LastStage
    /\ signupErrors' = NextErrors(signupErrors, StageFields(signupStage), signupForm)
    /\ signupStage' = IF FieldsPass(StageFields(signupStage), signupForm)
                      THEN IF signupStage + 1 < LastStage THEN signupStage + 1 ELSE LastStage
                      ELSE signupStage
    /\ UNCHANGED <<signupForm, showSummary, signUpArgs, server>>

\* the Back button
handleSignupBack ==
    /\ ~showSummary
    /\ signupStage' = IF signupStage - 1 > 0 THEN signupStage - 1 ELSE 0
    /\ UNCHANGED <<signupForm, signupErrors, showSummary, signUpArgs, server>>

\* the form's submit: the Submit button replaces Next on the last stage
handleSignupSubmit ==
    /\ ~showSummary
    /\ signupStage = LastStage
    /\ signupErrors' = NextErrors(signupErrors, SignupFields, signupForm)
    /\ showSummary' = FieldsPass(SignupFields, signupForm)
    /\ UNCHANGED <<signupForm, signupStage, signUpArgs, server>>

\* the Edit Information button of the summary
EditInformation ==
    /\ showSummary
    /\ showSummary' = FALSE
    /\ UNCHANGED <<signupForm, signupErrors, signupStage, signUpArgs, server>>

\* the Confirm and Sign Up button of the summary: signUp(signupForm...)
ConfirmAndSignUp ==
    /\ showSummary
    /\ signUpArgs' = [called |-> TRUE, form |-> signupForm]
    /\ UNCHANGED <<signupForm, signupErrors, signupStage, showSummary, server>>

(* --------------------------- specifications ---------------------------- *)
CancelledOk == [status |-> 200, message |-> "Reservation cancelled successfully"]
Quiet == \A p \in AllProcs : ~InFlight(p)

\* history of a run of single calls on slot 1: pre holds the tables as they
\* were when the running call arrived, lastCall the call that completed last
\* when that was a successful reserve (with the takenSeats it arrived at)
History ==
    /\ pre' = IF pc'[1] = "idle" THEN NoPre
              ELSE IF pc[1] = "idle"
                   THEN [set |-> TRUE, screenings |-> screenings,
                         reservations |-> reservations]
                   ELSE pre
    /\ lastCall' = IF pc'[1] # "idle" THEN lastCall
                   ELSE IF req[1].kind = "reserve" /\ result'[1].status = 200
                        THEN [kind |-> "reserve", userId |-> req[1].userId,
                              screeningId |-> req[1].screeningId,
                              takenBefore |-> pre.screenings[req[1].screeningId].takenSeats]
                        ELSE NoCall
    /\ UNCHANGED op

NoHistory == UNCHANGED <<pre, lastCall, op>>

\* requests arrive at any time and their steps interleave freely
Next ==
    \E p \in Procs :
        \/ /\ nextId <= MaxReservations
           /\ \E u \in Users, seats \in ConcSeatLists : ReserveCall(p, "s1", u, seats)
           /\ NoHistory
        \/ (\E u \in Users : CancelCall(p, "s1", u)) /\ NoHistory
        \/ ReserveSelect(p) /\ NoHistory
        \/ ReserveUpdate(p) /\ NoHistory
        \/ ReserveInsert(p) /\ NoHistory
        \/ CancelSelect(p) /\ NoHistory
        \/ CancelDelete(p) /\ NoHistory
        \/ CancelScreening(p) /\ NoHistory
        \/ CancelUpdate(p) /\ NoHistory

Spec == Init /\ [][Next]_vars

\* one call at a time: a request arrives only when no handler is running
SeqNext ==
    \/ /\ Quiet
       /\ nextId <= MaxReservations
       /\ \E s \in RequestIds, u \in Users, seats \in SeatLists(MaxSeatsLen) :
             ReserveCall(1, s, u, seats)
       /\ History
    \/ Quiet /\ (\E s \in RequestIds, u \in Users : CancelCall(1, s, u)) /\ History
    \/ ReserveSelect(1) /\ History
    \/ ReserveUpdate(1) /\ History
    \/ ReserveInsert(1) /\ History
    \/ CancelSelect(1) /\ History
    \/ CancelDelete(1) /\ History
    \/ CancelScreening(1) /\ History
    \/ CancelUpdate(1) /\ History

SeqSpec == Init /\ [][SeqNext]_vars

\* NumRacers reserve calls, one per slot, all for the same single seat
RaceNext ==
    \E p \in Racers :
        \/ /\ result[p] = NoResult
           /\ \E u \in Users : ReserveCall(p, "s1", u, <<RaceSeat>>)
           /\ NoHistory
        \/ ReserveSelect(p) /\ NoHistory
        \/ ReserveUpdate(p) /\ NoHistory
        \/ ReserveInsert(p) /\ NoHistory

RaceSpec == Init /\ [][RaceNext]_vars

\* two reserve calls, one per slot, for disjoint seats of the same screening
PairSeats == {[row |-> 1, number |-> 1], [row |-> 2, number |-> 1]}
PairSeatLists == UNION {[1..k -> PairSeats] : k \in 1..MaxSeatsLen}
OtherSeat == [row |-> 1, number |-> 2]

PairNext ==
    \/ /\ result[1] = NoResult
       /\ \E u \in Users, seats \in PairSeatLists : ReserveCall(1, "s1", u, seats)
       /\ NoHistory
    \/ /\ result[2] = NoResult
       /\ \E u \in Users : ReserveCall(2, "s1", u, <<OtherSeat>>)
       /\ NoHistory
    \/ \E p \in {1, 2} :
          \/ ReserveSelect(p) /\ NoHistory
          \/ ReserveUpdate(p) /\ NoHistory
          \/ ReserveInsert(p) /\ NoHistory

PairSpec == Init /\ [][PairNext]_vars

\* u1 reserves seats and, once that has returned, cancels on slot 1 while u2
\* reserves another seat of the screening on slot 2
ReservedOk(p) == pc[p] = "idle" /\ result[p].status = 200 /\ result[p] # CancelledOk

CancelRaceNext ==
    \/ /\ result[1] = NoResult
       /\ \E seats \in PairSeatLists : ReserveCall(1, "s1", "u1", seats)
       /\ NoHistory
    \/ ReservedOk(1) /\ CancelCall(1, "s1", "u1") /\ NoHistory
    \/ /\ result[2] = NoResult
       /\ result[1] # NoResult
       /\ ReserveCall(2, "s1", "u2", <<OtherSeat>>)
       /\ NoHistory
    \/ \E p \in {1, 2} :
          \/ ReserveSelect(p) /\ NoHistory
          \/ ReserveUpdate(p) /\ NoHistory
          \/ ReserveInsert(p) /\ NoHistory
          \/ CancelSelect(p) /\ NoHistory
          \/ CancelDelete(p) /\ NoHistory
          \/ CancelScreening(p) /\ NoHistory
          \/ CancelUpdate(p) /\ NoHistory

CancelRaceSpec == Init /\ [][CancelRaceNext]_vars

\* the same calls when every handler that has started keeps being scheduled
HandlerStep(p) ==
    \/ ReserveSelect(p) /\ NoHistory
    \/ ReserveUpdate(p) /\ NoHistory
    \/ ReserveInsert(p) /\ NoHistory
    \/ CancelSelect(p) /\ NoHistory
    \/ CancelDelete(p) /\ NoHistory
    \/ CancelScreening(p) /\ NoHistory
    \/ CancelUpdate(p) /\ NoHistory

CancelRaceLive == CancelRaceSpec /\ \A p \in {1, 2} : WF_vars(HandlerStep(p))

\* reserve and cancel calls on slot 1 interleave with the read and admin
\* routes, which answer on slot 2; op names the route of each step
Route(name) == op' = name /\ UNCHANGED <<pre, lastCall>>
ReadRoutes == {"get_user", "list_movies", "list_screenings", "get_screening"}
AdminUserRoutes == {"admin_promote", "admin_ban"}
AdminMovieRoutes == {"admin_add_movie", "admin_delete_movie"}
AdminCallers == {NoSession, "u2", "a1"}

AdminNext ==
    \/ /\ nextId <= MaxReservations
       /\ \E seats \in {<<RaceSeat>>, <<OtherSeat>>} : ReserveCall(1, "s1", "u1", seats)
       /\ Route("reserve")
    \/ CancelCall(1, "s1", "u1") /\ Route("cancel")
    \/ ReserveSelect(1) /\ Route("reserve")
    \/ ReserveUpdate(1) /\ Route("reserve")
    \/ ReserveInsert(1) /\ Route("reserve")
    \/ CancelSelect(1) /\ Route("cancel")
    \/ CancelDelete(1) /\ Route("cancel")
    \/ CancelScreening(1) /\ Route("cancel")
    \/ CancelUpdate(1) /\ Route("cancel")
    \/ (\E c \in Callers : GetUser(2, c)) /\ Route("get_user")
    \/ ListMovies(2) /\ Route("list_movies")
    \/ ListScreenings(2) /\ Route("list_screenings")
    \/ (\E id \in RequestIds : GetScreening(2, id)) /\ Route("get_screening")
    \/ (\E c \in AdminCallers, r \in Roles : AdminPromote(2, c, "u2", r)) /\ Route("admin_promote")
    \/ (\E c \in AdminCallers : AdminBan(2, c, "u2")) /\ Route("admin_ban")
    \/ (\E c \in AdminCallers : AdminAddMovie(2, c, "m2")) /\ Route("admin_add_movie")
    \/ (\E c \in AdminCallers, id \in {"m1", "m2"} : AdminDeleteMovie(2, c, id))
          /\ Route("admin_delete_movie")
    \/ (\E c \in AdminCallers, id \in RequestIds : AdminDeleteScreening(2, c, id))
          /\ Route("admin_delete_screening")

AdminSpec == Init /\ [][AdminNext]_vars

\* the admin routes called with and without an admin session on slot 2, while
\* a user reserves seats of the first and of the added screening on slot 1
GateScreeningIds == {"s1", "s3"}

GateNext ==
    \/ /\ nextId <= MaxReservations
       /\ \E s \in GateScreeningIds : ReserveRequest(1, s, "u1", <<RaceSeat>>)
       /\ NoHistory
    \/ ReserveSelect(1) /\ NoHistory
    \/ ReserveUpdate(1) /\ NoHistory
    \/ ReserveInsert(1) /\ NoHistory
    \/ (\E c \in AdminCallers, r \in Roles : AdminPromote(2, c, "u2", r)) /\ NoHistory
    \/ (\E c \in AdminCallers : AdminBan(2, c, "u2")) /\ NoHistory
    \/ (\E c \in AdminCallers : AdminAddMovie(2, c, "m2")) /\ NoHistory
    \/ (\E c \in AdminCallers, id \in {"m1", "m2"} : AdminDeleteMovie(2, c, id)) /\ NoHistory
    \/ (\E c \in AdminCallers, m \in {"m1", "m2"} : AdminAddScreening(2, c, "s3", m, 900))
          /\ NoHistory
    \/ (\E c \in AdminCallers, id \in GateScreeningIds : AdminDeleteScreening(2, c, id))
          /\ NoHistory

GateSpec == Init /\ [][GateNext]_vars

\* reserve and cancel requests with and without a session, one at a time
AuthCallers == Users \cup {NoSession}
AuthSeatLists == {<<RaceSeat>>, <<OtherSeat>>}

AuthNext ==
    \/ /\ nextId <= MaxReservations
       /\ \E c \in AuthCallers, seats \in AuthSeatLists : ReserveRequest(1, "s1", c, seats)
       /\ NoHistory
    \/ (\E c \in AuthCallers : CancelRequest(1, "s1", c)) /\ NoHistory
    \/ ReserveSelect(1) /\ NoHistory
    \/ ReserveUpdate(1) /\ NoHistory
    \/ ReserveInsert(1) /\ NoHistory
    \/ CancelSelect(1) /\ NoHistory
    \/ CancelDelete(1) /\ NoHistory
    \/ CancelScreening(1) /\ NoHistory
    \/ CancelUpdate(1) /\ NoHistory

AuthSpec == Init /\ [][AuthNext]_vars


\* the signup tab of the login page on its own
WizardNext ==
    \/ \E f \in SignupFields : \E v \in TypedValues(f) : handleSignupChange(f, v)
    \/ handleSignupNext
    \/ handleSignupBack
    \/ handleSignupSubmit
    \/ EditInformation
    \/ ConfirmAndSignUp

WizardSpec == Init /\ [][WizardNext]_vars


(* ------------------------------ properties ---------------------------- *)
\* (row, number) pairs of a stored seat list, and of the requests
Pairs(seats) == {<<seats[i].row, seats[i].number>> : i \in 1..Len(seats)}
RequestPair(seat) == <<String(seat.row), seat.number>>
TakenPairs(s) == Pairs(screenings[s].takenSeats)
ReservedPairs(s) == UNION {Pairs(r.seats) : r \in {x \in reservations : x.screeningId = s}}

\* C1: after any sequence of completed Reserve and Cancel calls, the taken
\* seats of every screening are, as (row, number) pairs, exactly the seats of
\* the reservations that exist for it.
C1_NoDrift ==
    Quiet => \A s \in DOMAIN screenings : TakenPairs(s) = ReservedPairs(s)

\* a cancel has completed and left another reservation and its seats behind
C1_Witness ==
    /\ Quiet
    /\ result[1] = CancelledOk
    /\ reservations # {}
    /\ screenings["s1"].takenSeats # <<>>

\* C2: under any interleaving, no (row, number) of a screening is in the seat
\* lists of two existing reservations.
C2_NoDoubleBooking ==
    \A r1, r2 \in reservations :
        (r1 # r2 /\ r1.screeningId = r2.screeningId) => Pairs(r1.seats) \cap Pairs(r2.seats) = {}

\* C3: when all the racing Reserve calls for the one free seat have returned,
\* exactly one of them has succeeded, the others have an error, and exactly
\* one reservation holds the seat.
C3_ExactlyOneWinner ==
    (\A p \in Racers : pc[p] = "idle" /\ result[p] # NoResult) =>
        /\ Cardinality({p \in Racers : result[p].status = 200}) = 1
        /\ Cardinality({p \in Racers : result[p].status = 400}) = NumRacers - 1
        /\ Cardinality({r \in reservations : RequestPair(RaceSeat) \in Pairs(r.seats)}) = 1

\* C4: a Reserve whose seat list holds a seat that is already taken answers 400
\* and leaves the screening table and the reservation table as they were when
\* the call arrived, also when other requested seats are free.
C4_ConflictLeavesStateAlone ==
    [][\A p \in AllProcs :
          ( /\ pc[p] = "r_select"
            /\ pc'[p] # "r_select"
            /\ req[p].screeningId \in DOMAIN screenings
            /\ \E i \in 1..Len(req[p].seats) :
                  RequestPair(req[p].seats[i]) \in TakenPairs(req[p].screeningId) )
          => ( /\ pc'[p] = "idle"
               /\ result'[p].status = 400
               /\ screenings' = screenings /\ reservations' = reservations
               /\ screenings' = pre.screenings /\ reservations' = pre.reservations )
      ]_vars

\* a Reserve for a free seat followed by a taken seat is about to be checked
C4_Witness ==
    /\ pc[1] = "r_select"
    /\ req[1].screeningId = "s1"
    /\ Len(req[1].seats) = 2
    /\ RequestPair(req[1].seats[1]) \notin TakenPairs("s1")
    /\ RequestPair(req[1].seats[2]) \in TakenPairs("s1")

\* C5: the seat named by the 400 answer is the first seat of the requested
\* sequence that is in the screening's taken seats.
C5_FirstConflictNamed ==
    [][\A p \in AllProcs :
          (pc[p] = "r_select" /\ pc'[p] = "idle" /\ result'[p].status = 400)
          => \E i \in 1..Len(req[p].seats) :
                /\ RequestPair(req[p].seats[i]) \in TakenPairs(req[p].screeningId)
                /\ \A j \in 1..(i - 1) :
                      RequestPair(req[p].seats[j]) \notin TakenPairs(req[p].screeningId)
                /\ result'[p].row = req[p].seats[i].row
                /\ result'[p].number = req[p].seats[i].number
      ]_vars

\* a Reserve for two taken seats, asked in the reverse of the order they were taken
C5_Witness ==
    /\ pc[1] = "r_select"
    /\ req[1].screeningId = "s1"
    /\ Len(req[1].seats) = 2
    /\ Len(screenings["s1"].takenSeats) = 2
    /\ req[1].seats[1] # req[1].seats[2]
    /\ StoredSeat(req[1].seats[1]) = screenings["s1"].takenSeats[2]
    /\ StoredSeat(req[1].seats[2]) = screenings["s1"].takenSeats[1]

\* C6: a Reserve for a screening id without a row answers 404 and leaves both
\* tables as they were.
C6_MissingScreening ==
    [][\A p \in AllProcs :
          ( /\ pc[p] = "r_select"
            /\ pc'[p] # "r_select"
            /\ req[p].screeningId \notin DOMAIN screenings )
          => ( /\ pc'[p] = "idle"
               /\ result'[p].status = 404
               /\ screenings' = screenings /\ reservations' = reservations
               /\ screenings' = pre.screenings /\ reservations' = pre.reservations )
      ]_vars

\* a Reserve was answered "Screening not found" while reservations exist
C6_Witness ==
    /\ Quiet
    /\ result[1] = [status |-> 404, error |-> "Screening not found"]
    /\ reservations # {}

\* C7: a Cancel by a user without a reservation of the screening answers 404
\* and leaves both tables as they were.
C7_NothingToCancel ==
    [][\A p \in AllProcs :
          ( /\ pc[p] = "c_select"
            /\ pc'[p] # "c_select"
            /\ ~\E r \in reservations :
                  r.userId = req[p].userId /\ r.screeningId = req[p].screeningId )
          => ( /\ pc'[p] = "idle"
               /\ result'[p].status = 404
               /\ screenings' = screenings /\ reservations' = reservations
               /\ screenings' = pre.screenings /\ reservations' = pre.reservations )
      ]_vars

\* a Cancel was answered "Reservation not found" while another user's
\* reservation and its seats exist
C7_Witness ==
    /\ Quiet
    /\ result[1] = [status |-> 404, error |-> "Reservation not found"]
    /\ reservations # {}
    /\ screenings["s1"].takenSeats # <<>>

\* C8: a successful Reserve followed at once by the same user's Cancel on the
\* same screening leaves the taken seats as they were before the Reserve.
C8_RoundTrip ==
    [][\A p \in AllProcs :
          ( /\ req[p].kind = "cancel"
            /\ pc'[p] = "idle"
            /\ result'[p] = CancelledOk
            /\ lastCall.kind = "reserve"
            /\ lastCall.userId = req[p].userId
            /\ lastCall.screeningId = req[p].screeningId )
          => Pairs(screenings'[req[p].screeningId].takenSeats) = Pairs(lastCall.takenBefore)
      ]_vars

\* C9: a successful Reserve adds exactly the requested seats, marked
\* unavailable, to the taken seats it found, inserts exactly one reservation
\* (the caller's, for this screening, with exactly the requested seats) and
\* answers with that reservation's id.
C9_ReserveEffect ==
    [][\A p \in AllProcs :
          (pc[p] = "r_insert" /\ pc'[p] = "idle" /\ result'[p].status = 200)
          => LET sid == req[p].screeningId
                 seats == req[p].seats
                 wanted == [i \in 1..Len(seats) |->
                              [row |-> String(seats[i].row), number |-> seats[i].number,
                               isAvailable |-> FALSE]]
                 before == pre.screenings[sid].takenSeats
                 after == screenings'[sid].takenSeats
                 added == reservations' \ pre.reservations
             IN /\ {after[i] : i \in 1..Len(after)} =
                      {before[i] : i \in 1..Len(before)} \cup {wanted[i] : i \in 1..Len(wanted)}
                /\ pre.reservations \subseteq reservations'
                /\ Cardinality(added) = 1
                /\ \A r \in added :
                      /\ r.userId = req[p].userId
                      /\ r.screeningId = sid
                      /\ r.seats = wanted
                      /\ result'[p].reservationId = r.id
      ]_vars

\* a Reserve of two seats has succeeded on a screening that had a taken seat
C9_Witness ==
    /\ Quiet
    /\ result[1].status = 200
    /\ lastCall.kind = "reserve"
    /\ Len(lastCall.takenBefore) > 0
    /\ Len(screenings["s1"].takenSeats) = Len(lastCall.takenBefore) + 2

\* C10: the total price of every reservation is the price of its screening,
\* whatever the number of its seats.
C10_FlatPrice ==
    \A r \in reservations :
        r.screeningId \in DOMAIN screenings => r.totalPrice = screenings[r.screeningId].price

\* reservations of two seats and of one seat exist
C10_Witness ==
    \E r1, r2 \in reservations : Len(r1.seats) = 2 /\ Len(r2.seats) = 1

\* C11: a successful Cancel deletes exactly one reservation, one of the caller
\* for this screening, and removes from the taken seats exactly the entries
\* whose (row, number) is that of a seat of the deleted reservation; every
\* other entry stays, in its place.
C11_CancelEffect ==
    [][\A p \in AllProcs :
          (pc[p] = "c_update" /\ pc'[p] = "idle" /\ result'[p] = CancelledOk)
          => LET sid == req[p].screeningId
                 taken == pre.screenings[sid].takenSeats
                 deleted == pre.reservations \ reservations'
             IN /\ reservations' \subseteq pre.reservations
                /\ Cardinality(deleted) = 1
                /\ \A r \in deleted :
                      /\ r.userId = req[p].userId
                      /\ r.screeningId = sid
                      /\ screenings'[sid].takenSeats =
                            SelectSeq(taken, LAMBDA e : <<e.row, e.number>> \notin Pairs(r.seats))
      ]_vars

\* a Cancel has completed and the two seats of another reservation are still taken
C11_Witness ==
    /\ Quiet
    /\ result[1] = CancelledOk
    /\ Len(screenings["s1"].takenSeats) = 2
    /\ \E r \in reservations : Len(r.seats) = 2 /\ Pairs(r.seats) = TakenPairs("s1")

\* C12: in no state, the states between the steps of a Reserve included, are
\* the seats of a Reserve call written to the taken seats while the call's
\* reservation row does not exist.
C12_ReserveAtomic ==
    \A p \in AllProcs :
        ( /\ req[p].kind = "reserve"
          /\ pc[p] = "r_insert"
          /\ Pairs(StoredSeats(req[p].seats)) \subseteq TakenPairs(req[p].screeningId) )
        => \E r \in reservations :
              /\ r.userId = req[p].userId
              /\ r.screeningId = req[p].screeningId
              /\ r.seats = StoredSeats(req[p].seats)

\* C13: in no state, the states between the steps of a Cancel included, is the
\* reservation of a Cancel call deleted while one of its seats is still among
\* the taken seats.
C13_CancelAtomic ==
    \A p \in AllProcs :
        ( /\ req[p].kind = "cancel"
          /\ pc[p] \in {"c_screening", "c_update"}
          /\ loc[p].reservation \notin reservations
          /\ req[p].screeningId \in DOMAIN screenings )
        => Pairs(loc[p].reservation.seats) \cap TakenPairs(req[p].screeningId) = {}

\* C14: when u1's Cancel and u2's Reserve of another seat have both returned,
\* the taken seats hold the seat of the Reserve, if it succeeded, and none of
\* the seats of the cancelled reservation.
C14_CancelReserveRace ==
    (pc[1] = "idle" /\ result[1] = CancelledOk /\ pc[2] = "idle" /\ result[2] # NoResult) =>
        /\ result[2].status = 200 => RequestPair(OtherSeat) \in TakenPairs("s1")
        /\ \A seats \in PairSeatLists : Pairs(StoredSeats(seats)) \cap TakenPairs("s1") = {}

\* C15: when the two Reserve calls for disjoint free seats have both returned
\* success, the taken seats hold the seats of both reservations.
C15_NoLostUpdate ==
    (\A p \in {1, 2} : ReservedOk(p)) =>
        \A r \in reservations : Pairs(r.seats) \subseteq TakenPairs("s1")

\* C16: a seat enters the taken seats only by the update of a Reserve that
\* asks for it and then succeeds; it leaves them only by the update of a Cancel
\* whose deleted reservation held it, and never while a reservation holding it
\* exists; a Reserve of seats that no reservation holds is not refused.
AllPairs == {RequestPair(seat) : seat \in RequestSeats}

C16_SeatTransitions ==
    [][\A s \in DOMAIN screenings :
          /\ \A x \in AllPairs :
                /\ (x \notin TakenPairs(s) /\ x \in Pairs(screenings'[s].takenSeats))
                   => \E p \in AllProcs :
                         /\ pc[p] = "r_update" /\ req[p].screeningId = s
                         /\ x \in Pairs(StoredSeats(req[p].seats))
                /\ (x \in TakenPairs(s) /\ x \notin Pairs(screenings'[s].takenSeats))
                   => /\ \E p \in AllProcs :
                            /\ pc[p] = "c_update" /\ req[p].screeningId = s
                            /\ result'[p] = CancelledOk
                            /\ x \in Pairs(loc[p].reservation.seats)
                            /\ loc[p].reservation \notin reservations'
                      /\ \A r \in reservations' : r.screeningId = s => x \notin Pairs(r.seats)
          /\ \A p \in AllProcs :
                /\ (pc[p] = "r_insert" /\ pc'[p] = "idle") => result'[p].status = 200
                /\ ( /\ pc[p] = "r_select" /\ pc'[p] # "r_select"
                     /\ req[p].screeningId = s
                     /\ Pairs(StoredSeats(req[p].seats)) \cap ReservedPairs(s) = {} )
                   => pc'[p] = "r_update"
      ]_vars

\* C17: a reservation ceases to exist only at the delete of a Cancel made by
\* its owner; no other step, admin deletes included, removes a reservation.
C17_OnlyCancelRemoves ==
    [][\A r \in reservations :
          r \notin reservations' =>
              \E p \in AllProcs :
                  /\ pc[p] = "c_delete"
                  /\ loc[p].reservation.id = r.id
                  /\ req[p].userId = r.userId
      ]_vars

\* C17 (amended): a reservation ceases to exist only at the delete of a Cancel
\* made by its owner, or when an admin's delete of its screening, or of that
\* screening's movie, takes the screening away and the cascade with it.
C17_CancelOrCascade ==
    [][\A r \in reservations :
          r \notin reservations' =>
              \/ /\ op' = "cancel"
                 /\ \E p \in AllProcs :
                        /\ pc[p] = "c_delete"
                        /\ loc[p].reservation.id = r.id
                        /\ req[p].userId = r.userId
              \/ /\ op' \in {"admin_delete_screening", "admin_delete_movie"}
                 /\ result'[2].status = 200
                 /\ r.screeningId \in DOMAIN screenings
                 /\ r.screeningId \notin DOMAIN screenings'
      ]_vars

\* the reservation of the last successful Reserve is gone without any Cancel:
\* an admin deleted its screening
C17_Witness ==
    /\ ReservedOk(1)
    /\ op = "admin_delete_screening"
    /\ result[2] = [status |-> 200, message |-> "Screening deleted successfully"]
    /\ "s1" \notin DOMAIN screenings
    /\ reservations = {}

\* C18: the taken seats of an existing screening change only at Reserve and
\* Cancel steps; every read route and every admin user or movie route leaves
\* every screening's taken seats and every reservation unchanged.
C18_ReadsAndAdminFrame ==
    [][/\ \A s \in DOMAIN screenings \cap DOMAIN screenings' :
             screenings'[s].takenSeats # screenings[s].takenSeats
                 => op' \in {"reserve", "cancel"}
       /\ op' \in ReadRoutes \cup AdminUserRoutes \cup AdminMovieRoutes
             => /\ reservations' = reservations
                /\ \A s \in DOMAIN screenings \cap DOMAIN screenings' :
                       screenings'[s].takenSeats = screenings[s].takenSeats
      ]_vars

\* C18 (amended): the taken seats of a screening that stays change only at
\* the update of a Reserve or a Cancel; the read routes, the admin user routes
\* and the add-movie route leave the screening and reservation tables as they
\* are; the delete-movie route removes the movie's screenings together with
\* their reservations and leaves every other screening and reservation alone.
C18_FrameWithCascade ==
    [][/\ \A s \in DOMAIN screenings \cap DOMAIN screenings' :
             screenings'[s].takenSeats # screenings[s].takenSeats
                 => /\ op' \in {"reserve", "cancel"}
                    /\ \E p \in AllProcs : pc[p] \in {"r_update", "c_update"}
       /\ op' \in ReadRoutes \cup AdminUserRoutes \cup {"admin_add_movie"}
             => UNCHANGED <<screenings, reservations>>
       /\ op' = "admin_delete_movie"
             => /\ \A s \in DOMAIN screenings' :
                       s \in DOMAIN screenings /\ screenings'[s] = screenings[s]
                /\ \A s \in DOMAIN screenings \ DOMAIN screenings' :
                       screenings[s].movieId \notin movies'
                /\ reservations' = {r \in reservations : r.screeningId \in DOMAIN screenings'}
      ]_vars

\* an admin has banned a user while seats of the screening were reserved
C18_Witness ==
    /\ op = "admin_ban"
    /\ result[2] = [status |-> 200, message |-> "User banned successfully"]
    /\ users["u2"].banned
    /\ reservations # {}
    /\ "s1" \in DOMAIN screenings
    /\ TakenPairs("s1") # {}

\* C19: there is at most one reservation for any (user, screening) pair.
C19_OnePerUserAndScreening ==
    \A r1, r2 \in reservations :
        (r1.userId = r2.userId /\ r1.screeningId = r2.screeningId) => r1 = r2

\* C20: a Reserve with an empty seat list is refused before it reads or writes
\* anything, and no reservation has an empty seat list.
C20_EmptyRequestRejected ==
    /\ \A p \in AllProcs :
          (req[p].kind = "reserve" /\ req[p].seats = <<>>) => pc[p] = "r_select"
    /\ \A r \in reservations : r.seats # <<>>

\* every call that has reached its handler sends a response
EveryCallReturns == \A p \in {1, 2} : InFlight(p) ~> ~InFlight(p)

\* C21: a Reserve that lost the race for the taken seats (the list it read is
\* no longer the stored one when it comes to write) does not go on to write
\* and succeed: it retries or gives up with a conflict error.
C21_LosingCallGivesUp ==
    [][\A p \in AllProcs :
          ( /\ pc[p] = "r_update" /\ pc'[p] # "r_update"
            /\ req[p].screeningId \in DOMAIN screenings
            /\ screenings[req[p].screeningId].takenSeats # loc[p].takenSeats )
          => /\ screenings' = screenings
             /\ pc'[p] # "r_insert"
      ]_vars

C23_CancelSparesOthers ==
    [][\A p \in AllProcs :
          req[p].kind = "cancel" =>
              /\ (pc[p] # pc'[p]) =>
                    \A r \in reservations : r.userId # req[p].userId => r \in reservations'
              /\ (pc[p] = "c_update" /\ result'[p] = CancelledOk) =>
                    \A r \in reservations' :
                        r.screeningId = req[p].screeningId =>
                            Pairs(r.seats) \cap TakenPairs(r.screeningId)
                                \subseteq Pairs(screenings'[r.screeningId].takenSeats)
      ]_vars

\* C24: the taken seats of a screening never hold two entries with the same
\* (row, number).
C24_NoDuplicateSeats ==
    \A s \in DOMAIN screenings :
        \A i, j \in 1..Len(screenings[s].takenSeats) :
            StoredMatches(screenings[s].takenSeats[i], screenings[s].takenSeats[j]) => i = j

\* C25: every reservation references a screening that exists: deleting a
\* screening takes its reservations with it, and a Reserve whose screening was
\* deleted after it read it inserts nothing.
C25_ReservationsHaveScreening ==
    \A r \in reservations : r.screeningId \in DOMAIN screenings

\* a Reserve read its screening, an admin deleted the screening, and the
\* insert of the Reserve was refused
C25_Witness ==
    /\ pc[1] = "idle"
    /\ result[1] = [status |-> 500, error |-> "foreign key violation"]
    /\ "s1" \notin DOMAIN screenings
    /\ nextId > 1

\* some admin route answers the request of caller c on slot p in this step
AdminRouteStep(p, c) ==
    \/ \E id \in Accounts, r \in Roles : AdminPromote(p, c, id, r)
    \/ \E id \in Accounts : AdminBan(p, c, id)
    \/ \E id \in FreshIds : AdminAddMovie(p, c, id)
    \/ \E id \in MovieIds \cup FreshIds : AdminDeleteMovie(p, c, id)
    \/ \E id \in FreshIds, m \in MovieIds \cup FreshIds : AdminAddScreening(p, c, id, m, 900)
    \/ \E id \in GateScreeningIds : AdminDeleteScreening(p, c, id)

IsAdmin(c) == c \in DOMAIN users /\ users[c].role = "admin"

\* C26: an admin route called without a session, or with a session whose
\* user is not an admin, answers with an error and leaves every table as it
\* is; the user table, the movie table and the set of screenings change only
\* in a step of an admin route called by an admin.
C26_AdminOnly ==
    [][/\ \A c \in Callers :
             (~IsAdmin(c) /\ AdminRouteStep(2, c))
                 => /\ result'[2] \in {Unauthorized, Forbidden}
                    /\ UNCHANGED <<screenings, reservations, movies, users, fresh>>
       /\ (users' # users \/ movies' # movies \/ DOMAIN screenings' # DOMAIN screenings)
             => \E c \in Accounts : IsAdmin(c) /\ AdminRouteStep(2, c)
      ]_vars

\* a signed-in user who is no admin was refused after an admin had added a
\* screening and a reservation had been made
C26_Witness ==
    /\ result[2] = Forbidden
    /\ users["u2"].role = "user"
    /\ "s3" \in DOMAIN screenings
    /\ reservations # {}

\* C27: a screening added by an admin starts with no taken seats and with no
\* reservation referring to it, so each of its seats can be reserved.
C27_NewScreeningEmpty ==
    [][\A s \in DOMAIN screenings' \ DOMAIN screenings :
          /\ screenings'[s].takenSeats = <<>>
          /\ \A r \in reservations' : r.screeningId # s
          /\ \A seat \in RequestSeats : ~IsTaken(screenings'[s].takenSeats, seat)
      ]_vars

\* an admin added a screening while the first screening had a taken seat, and
\* a seat of the new screening has since been reserved
C27_Witness ==
    /\ "s3" \in DOMAIN screenings
    /\ "s1" \in DOMAIN screenings
    /\ screenings["s1"].takenSeats # <<>>
    /\ \E r \in reservations : r.screeningId = "s3"

\* the validation rules, field by field
FieldOk(field, form) ==
    /\ \E i \in 1..Len(form[field]) : form[field][i] \notin Whitespace
    /\ field = "email" => emailPattern(form[field])
    /\ field = "password" =>
          /\ Len(form[field]) >= MinPasswordLength
          /\ \E i \in 1..Len(form[field]) : form[field][i] \in DigitChars
    /\ field = "confirmPassword" => form[field] = form["password"]
    /\ field = "profilePictureUrl" =>
          UrlProtocol(form[field]) \in {<<"h", "t", "t", "p", ":">>,
                                        <<"h", "t", "t", "p", "s", ":">>}

\* C28: the stage stays within 0..3; Next moves one stage on when every
\* field of the stage on screen is valid and otherwise leaves the stage where
\* it is; Back moves one stage back and never below 0; nothing else moves it.
C28_StageMoves ==
    [][/\ signupStage' \in 0..3
       /\ signupStage' \in 0..LastStage
       /\ handleSignupNext =>
             signupStage' = IF \A f \in StageFields(signupStage) : FieldOk(f, signupForm)
                            THEN signupStage + 1
                            ELSE signupStage
       /\ handleSignupBack =>
             signupStage' = IF signupStage = 0 THEN 0 ELSE signupStage - 1
       /\ signupStage' # signupStage => handleSignupNext \/ handleSignupBack
      ]_vars

\* Next was refused on the second stage, which the first Next had led to
C28_Witness ==
    /\ signupStage = 1
    /\ signupForm["firstName"] = <<" ">>
    /\ signupErrors["firstName"] = "This field is required."

====
